---- MODULE Spec2Model ----
(***************************************************************************)
(* PG::TypeMapByMriType (ext/pg_type_map_by_mri_type.c): a table with one  *)
(* slot per MRI value type.  Each slot is the pair coder_<type> (a         *)
(* t_pg_coder pointer) and ask_<type> (a VALUE).  The model covers         *)
(* allocation, []=, [], coders, fit_to_query and typecast_query_param,     *)
(* the last one split at the rb_funcall that runs user code, so that the   *)
(* called method or proc can re-enter the table before it returns.         *)
(***************************************************************************)
EXTENDS Integers, Sequences, FiniteSets, TLC

VARIABLES
    coder,     \* coder[t]: this->coders.coder_<t>, a t_pg_coder pointer or NULL
    ask,       \* ask[t]: this->coders.ask_<t>, a VALUE, Qnil when unset
    stack,     \* the typecast_query_param calls suspended in rb_funcall
    last,      \* the latest event: what was called and how it ended
    assigned   \* history: the value of the latest successful []= per type

vars == <<coder, ask, stack, last, assigned>>

(***************************************************************************)
(* Bounds of the exploration.                                              *)
(***************************************************************************)
\* parameter indexes passed to typecast_query_param are 0..MaxField
MaxField == 1
\* typecast_query_param calls that may be suspended in rb_funcall at once
MaxDepth == 1

(***************************************************************************)
(* The MRI type list and Ruby values.                                      *)
(***************************************************************************)
\* FOR_EACH_MRI_TYPE: the 18 type codes, in the order of the macro
FOR_EACH_MRI_TYPE ==
    << "T_FIXNUM", "T_TRUE", "T_FALSE", "T_FLOAT", "T_BIGNUM", "T_COMPLEX",
       "T_RATIONAL", "T_ARRAY", "T_STRING", "T_SYMBOL", "T_OBJECT", "T_CLASS",
       "T_MODULE", "T_REGEXP", "T_HASH", "T_STRUCT", "T_FILE", "T_DATA" >>

MriTypes == { FOR_EACH_MRI_TYPE[i] : i \in 1..Len(FOR_EACH_MRI_TYPE) }

\* Ruby values (VALUE) are opaque handles; the object a handle refers to
\* carries its MRI type code and its class.
Qnil     == "nil"
enc_int  == "enc_int"
enc_arr  == "enc_arr"
sym_ask  == ":ask_for_coder"
proc_ask == "proc_ask"
int_42   == "42"
str_abc  == "'abc'"
ary_ints == "[1, 2]"
\* the type map the operations are called on
Self     == "typemap"

Header(t, k) == [type |-> t, klass |-> k]
Objects ==
    (Qnil     :> Header("T_NIL", "NilClass")) @@
    (enc_int  :> Header("T_DATA", "PG::TextEncoder::Integer")) @@
    (enc_arr  :> Header("T_DATA", "PG::TextEncoder::Array")) @@
    (sym_ask  :> Header("T_SYMBOL", "Symbol")) @@
    (proc_ask :> Header("T_DATA", "Proc")) @@
    (int_42   :> Header("T_FIXNUM", "Fixnum")) @@
    (str_abc  :> Header("T_STRING", "String")) @@
    (ary_ints :> Header("T_ARRAY", "Array")) @@
    (Self     :> Header("T_DATA", "PG::TypeMapByMriType"))

\* TYPE(v): the MRI type code of a value
TYPE(v) == Objects[v].type
\* rb_obj_classname(v)
rb_obj_classname(v) == Objects[v].klass
\* NIL_P(v)
NIL_P(v) == v = Qnil

\* classes that descend from PG::Coder
CoderClasses == {"PG::TextEncoder::Integer", "PG::TextEncoder::Array"}
\* rb_obj_is_kind_of(v, rb_cPG_Coder)
rb_obj_is_kind_of_Coder(v) == rb_obj_classname(v) \in CoderClasses

(***************************************************************************)
(* t_pg_coder structs.  A coder object wraps one struct; the struct points *)
(* back to its object through coder_obj.                                   *)
(***************************************************************************)
NULL == 0
CoderPtrs == {1, 2}
\* DATA_PTR(obj) of a coder object, as taken by Data_Get_Struct
DATA_PTR(obj) == IF obj = enc_int THEN 1 ELSE IF obj = enc_arr THEN 2 ELSE NULL
\* p->coder_obj
coder_obj(p) == IF p = 1 THEN enc_int ELSE enc_arr

(***************************************************************************)
(* Ruby strings and C strings.  A Ruby String may hold NUL bytes; it is    *)
(* modelled as the sequence of its NUL-free segments, so <<"T_FIXNUM">>    *)
(* is "T_FIXNUM" and <<"T_FIXNUM", "x">> is "T_FIXNUM\0x".  A C string is  *)
(* one NUL-free segment.                                                   *)
(***************************************************************************)
\* rb_str_new2(cstr)
rb_str_new2(cstr) == <<cstr>>

RECURSIVE escape_nul(_)
escape_nul(str) ==
    IF Len(str) = 1 THEN str[1]
    ELSE str[1] \o "\\0" \o escape_nul(Tail(str))
\* rb_inspect(str) of a String: quoted, NUL bytes escaped
rb_inspect(str) == << "\"" \o escape_nul(str) \o "\"" >>

\* exceptions: class, format string and the format's arguments
Exc(c, f, n, t, s) ==
    [class |-> c, format |-> f, argument |-> n, type |-> t, inspect |-> s]
NoErr == Exc("none", "", 0, "", "")

\* faulty variant: StringValuePtr, the bytes up to the first NUL without a check
StringValuePtr(str) == [cstr |-> str[1], err |-> NoErr]

\* StringValueCStr(str): the C string, or ArgumentError on an embedded NUL
StringValueCStr(str) ==
    IF Len(str) > 1
      THEN [cstr |-> "", err |-> Exc("ArgumentError", "string contains null byte", 0, "", "")]
      ELSE [cstr |-> str[1], err |-> NoErr]

(***************************************************************************)
(* Inputs of the operations.                                               *)
(***************************************************************************)
\* type names the client assigns and looks up (a subset of the 18)
ClientTypes == {"T_FIXNUM", "T_ARRAY"}
\* strings that are not type names: a type code outside the list, and a
\* type name followed by a NUL byte
BadNames == { <<"T_NIL">>, <<"T_ARRAY", "">> }
Names == { rb_str_new2(t) : t \in ClientTypes } \cup BadNames
\* second argument of []=
AssignValues == {Qnil, enc_int, sym_ask, proc_ask, int_42}
\* values sent as query parameters; the type code of Qnil, T_NIL, is
\* outside the list
ParamValues == {int_42, ary_ints, str_abc, Qnil}
Fields == 0..MaxField
\* what a called method or proc may return
ReturnValues == {Qnil, enc_arr, str_abc}
\* methods defined on the type map's class by a derivation
SelfMethods == {"ask_for_coder"}

(***************************************************************************)
(* The record of the latest event: an operation that returned or raised,   *)
(* or a typecast_query_param that has just made its rb_funcall.  funcall   *)
(* says how far a typecast_query_param got: "none" (no call), "no_method"  *)
(* (rb_funcall found no method), "calling" (suspended in the call),        *)
(* "returned" or "raised" (the callee came back).                          *)
(***************************************************************************)
Done(op) ==
    [ op |-> op, mri_type |-> <<>>, value |-> Qnil, field |-> 0,
      p_coder |-> NULL, ask_for_coder |-> Qnil, funcall |-> "none",
      obj |-> Qnil, calls |-> <<>>,
      outcome |-> "return", ret_coder |-> NULL, ret |-> Qnil, hash |-> <<>>,
      marked |-> {}, err |-> NoErr ]

(***************************************************************************)
(* pg_tmbmt_s_allocate                                                     *)
(***************************************************************************)
\* INIT_VARIABLES(type)
INIT_VARIABLES(type) == [coder |-> NULL, ask |-> Qnil]

pg_tmbmt_s_allocate ==
    /\ coder = [t \in MriTypes |-> INIT_VARIABLES(t).coder]
    /\ ask = [t \in MriTypes |-> INIT_VARIABLES(t).ask]
    /\ stack = <<>>
    /\ last = Done("allocate")
    /\ assigned = [t \in MriTypes |-> Qnil]

Init == pg_tmbmt_s_allocate

(***************************************************************************)
(* pg_tmbmt_aset: typemap[mri_type] = coder                                *)
(***************************************************************************)
\* the if / else-if chain of strcmp(p_mri_type, #type): the position of the
\* first list entry equal to the C string, 0 when the final else is taken
RECURSIVE strcmp_from(_, _)
strcmp_from(p_mri_type, i) ==
    IF i > Len(FOR_EACH_MRI_TYPE) THEN 0
    ELSE IF FOR_EACH_MRI_TYPE[i] = p_mri_type THEN i
    ELSE strcmp_from(p_mri_type, i + 1)
strcmp_chain(p_mri_type) == strcmp_from(p_mri_type, 1)

\* rb_raise(rb_eArgError, "unknown mri_type %s", StringValueCStr(rb_inspect(mri_type)))
unknown_mri_type(mri_type) ==
    Exc("ArgumentError", "unknown mri_type %s", 0, "",
        StringValueCStr(rb_inspect(mri_type)).cstr)

\* faulty variant: installing a coder leaves ask_<type> as it was
COMPARE_AND_ASSIGN_keeps_ask(type, coder_v) ==
    IF NIL_P(coder_v)
      THEN [coder |-> NULL, ask |-> Qnil]
      ELSE IF rb_obj_is_kind_of_Coder(coder_v)
             THEN [coder |-> DATA_PTR(coder_v), ask |-> ask[type]]
             ELSE [coder |-> NULL, ask |-> coder_v]

\* faulty variant: only a Symbol is accepted as ask value
COMPARE_AND_ASSIGN_symbol_only(type, coder_v) ==
    IF NIL_P(coder_v)
      THEN [coder |-> NULL, ask |-> Qnil]
      ELSE IF rb_obj_is_kind_of_Coder(coder_v)
             THEN [coder |-> DATA_PTR(coder_v), ask |-> Qnil]
             ELSE IF TYPE(coder_v) = "T_SYMBOL"
                    THEN [coder |-> NULL, ask |-> coder_v]
                    ELSE [coder |-> NULL, ask |-> Qnil]
\* COMPARE_AND_ASSIGN(type): the slot after the assignment of coder_v
COMPARE_AND_ASSIGN(type, coder_v) ==
    IF NIL_P(coder_v)
      THEN [coder |-> NULL, ask |-> Qnil]
      ELSE IF rb_obj_is_kind_of_Coder(coder_v)
             THEN [coder |-> DATA_PTR(coder_v), ask |-> Qnil]
             ELSE [coder |-> NULL, ask |-> coder_v]

\* faulty variant: an object is held by one slot at a time, storing it in
\* one slot removes it from the others
pg_tmbmt_aset_exclusive(mri_type, coder_v) ==
    LET c == StringValueCStr(mri_type)
        i == strcmp_chain(c.cstr)
        called == [Done("aset") EXCEPT !.mri_type = mri_type]
    IN  IF c.err # NoErr
          THEN /\ last' = [called EXCEPT !.outcome = "raise", !.err = c.err]
               /\ UNCHANGED <<coder, ask, stack, assigned>>
          ELSE IF i # 0
            THEN LET type == FOR_EACH_MRI_TYPE[i]
                     slot == COMPARE_AND_ASSIGN(type, coder_v)
                     held(t) == ~NIL_P(coder_v) /\ assigned[t] = coder_v
                 IN  /\ coder' = [t \in MriTypes |->
                            IF t = type THEN slot.coder
                            ELSE IF held(t) THEN NULL ELSE coder[t]]
                     /\ ask' = [t \in MriTypes |->
                            IF t = type THEN slot.ask
                            ELSE IF held(t) THEN Qnil ELSE ask[t]]
                     /\ assigned' = [t \in MriTypes |->
                            IF t = type THEN coder_v
                            ELSE IF held(t) THEN Qnil ELSE assigned[t]]
                     /\ last' = [called EXCEPT !.value = coder_v, !.ret = Self]
                     /\ UNCHANGED stack
            ELSE /\ last' = [called EXCEPT !.outcome = "raise",
                                           !.err = unknown_mri_type(mri_type)]
                 /\ UNCHANGED <<coder, ask, stack, assigned>>
pg_tmbmt_aset(mri_type, coder_v) ==
    LET c == StringValueCStr(mri_type)
        i == strcmp_chain(c.cstr)
        called == [Done("aset") EXCEPT !.mri_type = mri_type]
    IN  IF c.err # NoErr
          THEN /\ last' = [called EXCEPT !.outcome = "raise", !.err = c.err]
               /\ UNCHANGED <<coder, ask, stack, assigned>>
          ELSE IF i # 0
            THEN LET type == FOR_EACH_MRI_TYPE[i]
                     slot == COMPARE_AND_ASSIGN(type, coder_v)
                 IN  /\ coder' = [coder EXCEPT ![type] = slot.coder]
                     /\ ask' = [ask EXCEPT ![type] = slot.ask]
                     /\ assigned' = [assigned EXCEPT ![type] = coder_v]
                     /\ last' = [called EXCEPT !.value = coder_v, !.ret = Self]
                     /\ UNCHANGED stack
            ELSE /\ last' = [called EXCEPT !.outcome = "raise",
                                           !.err = unknown_mri_type(mri_type)]
                 /\ UNCHANGED <<coder, ask, stack, assigned>>

(***************************************************************************)
(* pg_tmbmt_aref: typemap[mri_type]                                        *)
(***************************************************************************)
\* faulty variant: only the ask value is looked up
COMPARE_AND_GET_ask_only(type) == ask[type]
\* COMPARE_AND_GET(type)
COMPARE_AND_GET(type) ==
    IF coder[type] # NULL THEN coder_obj(coder[type]) ELSE ask[type]

\* faulty variant: a string that matches no listed name is looked up as nil
pg_tmbmt_aref_nil_for_unknown(mri_type) ==
    LET c == StringValueCStr(mri_type)
        i == strcmp_chain(c.cstr)
        called == [Done("aref") EXCEPT !.mri_type = mri_type]
    IN  /\ last' =
             IF c.err # NoErr
               THEN [called EXCEPT !.outcome = "raise", !.err = c.err]
               ELSE IF i # 0
                 THEN [called EXCEPT !.ret = COMPARE_AND_GET(FOR_EACH_MRI_TYPE[i])]
                 ELSE called
        /\ UNCHANGED <<coder, ask, stack, assigned>>
pg_tmbmt_aref(mri_type) ==
    LET c == StringValueCStr(mri_type)
        i == strcmp_chain(c.cstr)
        called == [Done("aref") EXCEPT !.mri_type = mri_type]
    IN  /\ last' =
             IF c.err # NoErr
               THEN [called EXCEPT !.outcome = "raise", !.err = c.err]
               ELSE IF i # 0
                 THEN [called EXCEPT !.ret = COMPARE_AND_GET(FOR_EACH_MRI_TYPE[i])]
                 ELSE [called EXCEPT !.outcome = "raise",
                                     !.err = unknown_mri_type(mri_type)]
        /\ UNCHANGED <<coder, ask, stack, assigned>>

(***************************************************************************)
(* pg_tmbmt_coders: typemap.coders                                         *)
(***************************************************************************)
\* rb_hash_aset(hash, key, val)
rb_hash_aset(hash, key, val) ==
    [k \in DOMAIN hash \cup {key} |-> IF k = key THEN val ELSE hash[k]]

\* faulty variant: slots without coder and without ask get no entry
ADD_TO_HASH_skips_empty(hash_coders, type) ==
    IF coder[type] = NULL /\ ask[type] = Qnil
      THEN hash_coders
      ELSE rb_hash_aset(hash_coders, rb_str_new2(type),
                        IF coder[type] # NULL THEN coder_obj(coder[type]) ELSE ask[type])

\* ADD_TO_HASH(type)
ADD_TO_HASH(hash_coders, type) ==
    rb_hash_aset(hash_coders, rb_str_new2(type),
                 IF coder[type] # NULL THEN coder_obj(coder[type]) ELSE ask[type])

\* FOR_EACH_MRI_TYPE( ADD_TO_HASH ), entries i..18
RECURSIVE add_all_to_hash(_, _)
add_all_to_hash(hash_coders, i) ==
    IF i > Len(FOR_EACH_MRI_TYPE) THEN hash_coders
    ELSE add_all_to_hash(ADD_TO_HASH(hash_coders, FOR_EACH_MRI_TYPE[i]), i + 1)

pg_tmbmt_coders ==
    /\ last' = [Done("coders") EXCEPT !.hash = add_all_to_hash(<<>>, 1)]
    /\ UNCHANGED <<coder, ask, stack, assigned>>

(***************************************************************************)
(* pg_tmbmt_fit_to_query                                                   *)
(***************************************************************************)
\* faulty variant: the type map is cut down to the slot of the type of params
pg_tmbmt_fit_to_query_cuts_down(params) ==
    /\ last' = [Done("fit_to_query") EXCEPT !.value = params, !.ret = Self]
    /\ coder' = [t \in MriTypes |-> IF t = TYPE(params) THEN coder[t] ELSE NULL]
    /\ ask' = [t \in MriTypes |-> IF t = TYPE(params) THEN ask[t] ELSE Qnil]
    /\ assigned' = [t \in MriTypes |-> IF t = TYPE(params) THEN assigned[t] ELSE Qnil]
    /\ UNCHANGED stack
pg_tmbmt_fit_to_query(params) ==
    /\ last' = [Done("fit_to_query") EXCEPT !.value = params, !.ret = Self]
    /\ UNCHANGED <<coder, ask, stack, assigned>>

(***************************************************************************)
(* pg_tmbmt_typecast_query_param                                           *)
(***************************************************************************)
\* faulty variant: the case lacks its break and runs on into default
CASE_AND_GET_no_break(type) == [p_coder |-> NULL, ask_for_coder |-> Qnil]

\* faulty variant: the coder is read from the first slot whatever the type
CASE_AND_GET_first_coder(type) ==
    [p_coder |-> coder[FOR_EACH_MRI_TYPE[1]], ask_for_coder |-> ask[type]]

\* CASE_AND_GET(type)
CASE_AND_GET(type) == [p_coder |-> coder[type], ask_for_coder |-> ask[type]]

\* faulty variant: no default, an unlisted type code takes the first case
switch_TYPE_no_default(param_value) ==
    IF \E i \in 1..Len(FOR_EACH_MRI_TYPE) : FOR_EACH_MRI_TYPE[i] = TYPE(param_value)
      THEN [p_coder |-> coder[TYPE(param_value)], ask_for_coder |-> ask[TYPE(param_value)]]
      ELSE [ p_coder |-> coder[FOR_EACH_MRI_TYPE[1]],
             ask_for_coder |-> ask[FOR_EACH_MRI_TYPE[1]] ]

\* switch(TYPE(param_value)){ FOR_EACH_MRI_TYPE( CASE_AND_GET ) default: ... }
switch_TYPE(param_value) ==
    IF \E i \in 1..Len(FOR_EACH_MRI_TYPE) : FOR_EACH_MRI_TYPE[i] = TYPE(param_value)
      THEN CASE_AND_GET(TYPE(param_value))
      ELSE [p_coder |-> NULL, ask_for_coder |-> Qnil]

\* SYM2ID(sym)
SYM2ID(sym) == IF sym = sym_ask THEN "ask_for_coder" ELSE "call"
\* rb_intern("call")
rb_intern_call == "call"

\* faulty variant: no else, so a symbol's method is called and then call as well
rb_funcall_ask_no_else(ask_for_coder, param_value) ==
    (IF TYPE(ask_for_coder) = "T_SYMBOL"
       THEN << [recv |-> Self, mid |-> SYM2ID(ask_for_coder), args |-> <<param_value>>] >>
       ELSE << >>)
    \o << [recv |-> ask_for_coder, mid |-> rb_intern_call, args |-> <<param_value>>] >>

\* faulty variant: every stored object is called through its call method
rb_funcall_ask_always_call(ask_for_coder, param_value) ==
    << [recv |-> ask_for_coder, mid |-> rb_intern_call, args |-> <<param_value>>] >>
\* the rb_funcall made for a dynamic slot: receiver, method id, arguments
rb_funcall_ask(ask_for_coder, param_value) ==
    IF TYPE(ask_for_coder) = "T_SYMBOL"
      THEN << [recv |-> Self, mid |-> SYM2ID(ask_for_coder), args |-> <<param_value>>] >>
      ELSE << [recv |-> ask_for_coder, mid |-> rb_intern_call, args |-> <<param_value>>] >>

\* whether rb_funcall finds the method: a Proc has call, the type map has
\* the methods its class defines; otherwise rb_funcall raises NoMethodError
responds_to(call) ==
    \/ rb_obj_classname(call.recv) = "Proc" /\ call.mid = "call"
    \/ call.recv = Self /\ call.mid \in SelfMethods

\* faulty variant: reports the 0-based index
raise_TypeError_zero_based(field, obj) ==
    Exc("TypeError",
        "argument %d has invalid type %s (should be nil or some kind of PG::Coder)",
        field, rb_obj_classname(obj), "")

\* rb_raise(rb_eTypeError, "argument %d has invalid type %s (...)", field+1, rb_obj_classname(obj))
raise_TypeError(field, obj) ==
    Exc("TypeError",
        "argument %d has invalid type %s (should be nil or some kind of PG::Coder)",
        field + 1, rb_obj_classname(obj), "")

\* faulty variant: accepts the coder object but leaves p_coder as read from the slot
check_obj_keeps_p_coder(p_coder, field, obj) ==
    IF rb_obj_is_kind_of_Coder(obj)
      THEN [outcome |-> "return", ret_coder |-> p_coder, err |-> NoErr]
      ELSE [outcome |-> "raise", ret_coder |-> NULL, err |-> raise_TypeError(field, obj)]

\* faulty variant: when the call returned no coder the slot is read again
check_obj_reads_slot_again(p_coder, field, obj) ==
    IF rb_obj_is_kind_of_Coder(obj)
      THEN [outcome |-> "return", ret_coder |-> DATA_PTR(obj), err |-> NoErr]
      ELSE IF coder[TYPE(stack[Len(stack)].param_value)] # NULL
        THEN [outcome |-> "return",
              ret_coder |-> coder[TYPE(stack[Len(stack)].param_value)],
              err |-> NoErr]
        ELSE [outcome |-> "raise", ret_coder |-> NULL, err |-> raise_TypeError(field, obj)]
\* lines 79-87: what the function does with the object the call returned
check_obj(p_coder, field, obj) ==
    IF rb_obj_is_kind_of_Coder(obj)
      THEN [outcome |-> "return", ret_coder |-> DATA_PTR(obj), err |-> NoErr]
      ELSE [outcome |-> "raise", ret_coder |-> NULL, err |-> raise_TypeError(field, obj)]

\* entry of the function up to the rb_funcall; without a dynamic slot it
\* runs to its return
pg_tmbmt_typecast_query_param(param_value, field) ==
    LET slot == switch_TYPE(param_value)
        called == [Done("typecast_query_param") EXCEPT
                      !.value = param_value, !.field = field,
                      !.p_coder = slot.p_coder,
                      !.ask_for_coder = slot.ask_for_coder]
    IN  IF NIL_P(slot.ask_for_coder)
          THEN /\ last' = [called EXCEPT !.ret_coder = slot.p_coder]
               /\ UNCHANGED <<coder, ask, stack, assigned>>
          ELSE LET calls == rb_funcall_ask(slot.ask_for_coder, param_value)
               IN  IF \A n \in 1..Len(calls) : responds_to(calls[n])
                     THEN /\ Len(stack) < MaxDepth
                          /\ stack' = Append(stack,
                                 [ param_value |-> param_value, field |-> field,
                                   p_coder |-> slot.p_coder,
                                   ask_for_coder |-> slot.ask_for_coder,
                                   calls |-> calls ])
                          /\ last' = [called EXCEPT
                                 !.calls = calls, !.funcall = "calling"]
                          /\ UNCHANGED <<coder, ask, assigned>>
                     ELSE /\ last' = [called EXCEPT
                                 !.calls = calls, !.funcall = "no_method",
                                 !.outcome = "raise",
                                 !.err = Exc("NoMethodError", "undefined method", 0, "", "")]
                          /\ UNCHANGED <<coder, ask, stack, assigned>>

\* the innermost suspended call
top == stack[Len(stack)]

resumed(frame) ==
    [Done("typecast_query_param") EXCEPT
        !.value = frame.param_value, !.field = frame.field,
        !.p_coder = frame.p_coder, !.ask_for_coder = frame.ask_for_coder,
        !.calls = frame.calls]

\* faulty variant: the coder the call returned is kept in the slot
rb_funcall_returns_and_caches(obj) ==
    /\ stack # <<>>
    /\ LET r == check_obj(top.p_coder, top.field, obj)
           type == TYPE(top.param_value)
       IN  /\ last' = [resumed(top) EXCEPT
                          !.funcall = "returned", !.obj = obj,
                          !.outcome = r.outcome, !.ret_coder = r.ret_coder,
                          !.err = r.err]
           /\ IF r.outcome = "return"
                THEN /\ coder' = [coder EXCEPT ![type] = r.ret_coder]
                     /\ ask' = [ask EXCEPT ![type] = Qnil]
                     /\ assigned' = [assigned EXCEPT ![type] = obj]
                ELSE UNCHANGED <<coder, ask, assigned>>
    /\ stack' = SubSeq(stack, 1, Len(stack) - 1)
\* the called method or proc returns obj: lines 79-87
rb_funcall_returns(obj) ==
    /\ stack # <<>>
    /\ LET r == check_obj(top.p_coder, top.field, obj)
       IN  last' = [resumed(top) EXCEPT
                       !.funcall = "returned", !.obj = obj,
                       !.outcome = r.outcome, !.ret_coder = r.ret_coder,
                       !.err = r.err]
    /\ stack' = SubSeq(stack, 1, Len(stack) - 1)
    /\ UNCHANGED <<coder, ask, assigned>>

\* the called method or proc raises: the exception passes through
rb_funcall_raises ==
    /\ stack # <<>>
    /\ last' = [resumed(top) EXCEPT
                   !.funcall = "raised", !.outcome = "raise",
                   !.err = Exc("RuntimeError", "raised by the callee", 0, "", "")]
    /\ stack' = SubSeq(stack, 1, Len(stack) - 1)
    /\ UNCHANGED <<coder, ask, assigned>>

(***************************************************************************)
(* pg_tmbmt_mark: the mark function the collector calls for the type map   *)
(***************************************************************************)
\* rb_gc_mark(v): v is reported to the collector
rb_gc_mark(marked, v) == marked \cup {v}

\* faulty variant: only the coder objects are marked
GC_MARK_AS_USED_coders_only(marked, type) ==
    IF coder[type] # NULL
      THEN rb_gc_mark(marked, coder_obj(coder[type]))
      ELSE marked
\* GC_MARK_AS_USED(type)
GC_MARK_AS_USED(marked, type) ==
    rb_gc_mark(IF coder[type] # NULL
                 THEN rb_gc_mark(marked, coder_obj(coder[type]))
                 ELSE marked,
               ask[type])

\* FOR_EACH_MRI_TYPE( GC_MARK_AS_USED ), entries i..18
RECURSIVE mark_all(_, _)
mark_all(marked, i) ==
    IF i > Len(FOR_EACH_MRI_TYPE) THEN marked
    ELSE mark_all(GC_MARK_AS_USED(marked, FOR_EACH_MRI_TYPE[i]), i + 1)

\* the collector may run whenever Ruby code runs, also inside a callee
pg_tmbmt_mark ==
    /\ last' = [Done("mark") EXCEPT !.marked = mark_all({}, 1)]
    /\ UNCHANGED <<coder, ask, stack, assigned>>

(***************************************************************************)
(* The specification.  The methods are called by the client, or by a       *)
(* method or proc that a suspended typecast_query_param is running.        *)
(***************************************************************************)
\* parameter lists handed to fit_to_query
QueryParams == {ary_ints, Qnil}
\* names looked up: those assigned, and a listed type that never is
LookupNames == Names \cup { rb_str_new2("T_DATA") }

Next ==
    \/ \E mri_type \in Names, coder_v \in AssignValues : pg_tmbmt_aset(mri_type, coder_v)
    \/ \E mri_type \in LookupNames : pg_tmbmt_aref(mri_type)
    \/ pg_tmbmt_coders
    \/ \E params \in QueryParams : pg_tmbmt_fit_to_query(params)
    \/ \E param_value \in ParamValues, field \in Fields :
           pg_tmbmt_typecast_query_param(param_value, field)
    \/ \E obj \in ReturnValues : rb_funcall_returns(obj)
    \/ rb_funcall_raises
    \/ pg_tmbmt_mark

Spec == Init /\ [][Next]_vars

(***************************************************************************)
(* Properties.  Dispatch is typecast_query_param; "none" is a NULL coder   *)
(* pointer returned without an exception.                                  *)
(***************************************************************************)
\* the last completed operation is a typecast_query_param whose rb_funcall
\* returned (the slot read was dynamic and the callee came back with obj)
Resolved == last.op = "typecast_query_param" /\ last.funcall = "returned"

\* C1: when the called method or proc returns nil, typecast_query_param
\* returns NULL ("none") and raises nothing.
C1_NilYieldsNone ==
    (Resolved /\ last.obj = Qnil)
        => (last.outcome = "return" /\ last.ret_coder = NULL /\ last.err = NoErr)

\* C2: when the called method or proc returns a value that is neither nil
\* nor a PG::Coder, typecast_query_param raises TypeError whose argument
\* number is field+1 and whose type is the class of the returned value, and
\* returns no coder.
C2_TypeMismatch ==
    (Resolved /\ last.obj # Qnil /\ ~rb_obj_is_kind_of_Coder(last.obj))
        => /\ last.outcome = "raise"
           /\ last.err.class = "TypeError"
           /\ last.err.argument = last.field + 1
           /\ last.err.type = Objects[last.obj].klass

C2_Witness ==
    /\ Resolved /\ last.obj = str_abc /\ last.field = 1
    /\ last.outcome = "raise" /\ last.err.class = "TypeError"
    /\ last.err.argument = 2 /\ last.err.type = "String"

\* C3: when the called method or proc returns a PG::Coder c,
\* typecast_query_param returns the t_pg_coder of c, whatever the slots hold.
C3_ReturnsResolvedCoder ==
    (Resolved /\ rb_obj_is_kind_of_Coder(last.obj))
        => /\ last.outcome = "return" /\ last.err = NoErr
           /\ last.ret_coder # NULL
           /\ last.ret_coder = DATA_PTR(last.obj)

\* the callee returned enc_arr after it had put enc_int into the slot of
\* the value's own type
C3_Witness ==
    /\ Resolved /\ last.obj = enc_arr /\ last.outcome = "return"
    /\ last.ret_coder = DATA_PTR(enc_arr)
    /\ coder[TYPE(last.value)] = DATA_PTR(enc_int)

\* the one call a dynamic slot asks for: a single call, made to the proc's
\* call method or to the method of the type map the symbol names, with the
\* parameter value as its only argument
OneCall(calls, r, v) ==
    /\ Len(calls) = 1
    /\ calls[1].args = <<v>>
    /\ \/ calls[1].recv = r /\ calls[1].mid = "call"
       \/ calls[1].recv = Self /\ TYPE(r) = "T_SYMBOL" /\ calls[1].mid = SYM2ID(r)

\* C4: a typecast_query_param that read a dynamic slot makes exactly one
\* call for it, with the parameter value as sole argument, while it is
\* suspended in the call and when it has returned or raised.
C4_InvokedOnce ==
    /\ \A n \in 1..Len(stack) :
           OneCall(stack[n].calls, stack[n].ask_for_coder, stack[n].param_value)
    /\ (last.op = "typecast_query_param" /\ ~NIL_P(last.ask_for_coder))
           => OneCall(last.calls, last.ask_for_coder, last.value)

\* a dispatch that failed with TypeError after its single call
C4_Witness ==
    /\ Resolved /\ last.err.class = "TypeError" /\ Len(last.calls) = 1
    /\ last.ask_for_coder = proc_ask /\ last.calls[1].args = <<ary_ints>>

\* a step that enters typecast_query_param with value v: it runs to the
\* return, to rb_funcall's NoMethodError, or into the call
Enters(v) ==
    /\ last'.op = "typecast_query_param"
    /\ last'.funcall \in {"none", "no_method", "calling"}
    /\ last'.value = v

\* the step returned p without an exception and without any call
ReturnsUncalled(p) ==
    /\ last'.outcome = "return" /\ last'.err = NoErr
    /\ last'.ret_coder = p
    /\ last'.funcall = "none" /\ last'.calls = <<>>
    /\ stack' = stack

\* C5: typecast_query_param of a value whose slot holds a coder and no ask
\* returns that coder, makes no call, raises nothing and writes no slot, at
\* every parameter index.
C5_StaticReturnsCoder ==
    [][ \A v \in ParamValues :
          ( /\ Enters(v)
            /\ TYPE(v) \in MriTypes
            /\ coder[TYPE(v)] # NULL /\ ask[TYPE(v)] = Qnil )
          => /\ ReturnsUncalled(coder[TYPE(v)])
             /\ coder' = coder /\ ask' = ask ]_vars

C5_Witness ==
    /\ last.op = "typecast_query_param" /\ last.value = int_42 /\ last.field = 1
    /\ last.outcome = "return" /\ last.ret_coder = DATA_PTR(enc_int)
    /\ coder["T_FIXNUM"] = DATA_PTR(enc_int) /\ ask["T_FIXNUM"] = Qnil
    /\ ask["T_ARRAY"] = proc_ask

\* C6: typecast_query_param of a value whose slot holds neither coder nor
\* ask returns NULL and makes no call, whatever the other slots hold.
C6_EmptyYieldsNone ==
    [][ \A v \in ParamValues :
          ( /\ Enters(v)
            /\ TYPE(v) \in MriTypes
            /\ coder[TYPE(v)] = NULL /\ ask[TYPE(v)] = Qnil )
          => ReturnsUncalled(NULL) ]_vars

C6_Witness ==
    /\ last.op = "typecast_query_param" /\ last.value = ary_ints
    /\ last.outcome = "return" /\ last.ret_coder = NULL /\ last.calls = <<>>
    /\ coder["T_ARRAY"] = NULL /\ ask["T_ARRAY"] = Qnil
    /\ ask["T_FIXNUM"] = sym_ask

\* C7: typecast_query_param of a value whose type code is not in the list
\* returns NULL, raises nothing and makes no call, whatever the slots hold.
C7_UnknownTypeYieldsNone ==
    [][ \A v \in ParamValues :
          ( Enters(v) /\ TYPE(v) \notin MriTypes )
          => ReturnsUncalled(NULL) ]_vars

\* a nil parameter dispatched while every slot the client uses is filled
C7_Witness ==
    /\ last.op = "typecast_query_param" /\ last.value = Qnil /\ last.field = 1
    /\ last.outcome = "return" /\ last.ret_coder = NULL
    /\ coder["T_FIXNUM"] # NULL /\ ask["T_ARRAY"] # Qnil

\* C8: no slot has both a coder pointer and an ask value.
C8_NeverStaticAndDynamic ==
    \A t \in MriTypes : ~(coder[t] # NULL /\ ask[t] # Qnil)

\* a coder was just assigned, from inside a called proc or method, to a slot
\* that held an ask value before; another slot is dynamic
C8_Witness ==
    /\ stack # <<>> /\ top.ask_for_coder = sym_ask /\ TYPE(top.param_value) = "T_FIXNUM"
    /\ last.op = "aset" /\ last.outcome = "return" /\ last.mri_type = <<"T_FIXNUM">>
    /\ coder["T_FIXNUM"] = DATA_PTR(enc_int) /\ ask["T_FIXNUM"] = Qnil
    /\ ask["T_ARRAY"] = proc_ask /\ coder["T_ARRAY"] = NULL

\* the 18 type names as Ruby strings
CanonicalNames == { <<FOR_EACH_MRI_TYPE[i]>> : i \in 1..Len(FOR_EACH_MRI_TYPE) }

\* the exception is the ArgumentError "unknown mri_type" that quotes str
NamesString(err, str) ==
    /\ err.class = "ArgumentError"
    /\ err.format = "unknown mri_type %s"
    /\ Len(str) = 1 /\ err.inspect = "\"" \o str[1] \o "\""

\* a step of []= called with a string that is not one of the 18 names
AssignsInvalid == last'.op = "aset" /\ last'.mri_type \notin CanonicalNames

\* C9 as stated: []= with a string that is not one of the 18 names raises
\* the ArgumentError that names the string, for any value, and leaves every
\* slot as it was.
C9_InvalidNameNamed ==
    [][ AssignsInvalid
          => /\ last'.outcome = "raise"
             /\ NamesString(last'.err, last'.mri_type)
             /\ coder' = coder /\ ask' = ask ]_vars

\* C9 amended: []= with a string that is not one of the 18 names raises
\* ArgumentError for any value and leaves every slot as it was; the error
\* is "unknown mri_type" naming the string, except that for a string with a
\* NUL byte it is StringValueCStr's "string contains null byte".
C9_InvalidNameFails ==
    [][ AssignsInvalid
          => /\ last'.outcome = "raise"
             /\ last'.err.class = "ArgumentError"
             /\ IF Len(last'.mri_type) = 1
                  THEN NamesString(last'.err, last'.mri_type)
                  ELSE last'.err.format = "string contains null byte"
             /\ coder' = coder /\ ask' = ask ]_vars

\* a failed []= on a table with a static and a dynamic slot
C9_Witness ==
    /\ last.op = "aset" /\ last.outcome = "raise" /\ last.mri_type = <<"T_NIL">>
    /\ last.err.class = "ArgumentError" /\ last.err.inspect = "\"T_NIL\""
    /\ coder["T_FIXNUM"] = DATA_PTR(enc_int) /\ ask["T_ARRAY"] = sym_ask

\* C10: coders returns a hash whose keys are exactly the 18 type names and
\* whose value for a name is the value of the latest successful []= for
\* that name, nil when there was none.
C10_CodersListsAll ==
    last.op = "coders"
        => /\ DOMAIN last.hash = CanonicalNames
           /\ Cardinality(DOMAIN last.hash) = 18
           /\ \A t \in MriTypes : last.hash[<<t>>] = assigned[t]

C10_Witness ==
    /\ last.op = "coders"
    /\ last.hash[<<"T_FIXNUM">>] = enc_int
    /\ last.hash[<<"T_ARRAY">>] = int_42
    /\ last.hash[<<"T_DATA">>] = Qnil

\* C11: typemap[name] for a listed name returns the value of the latest
\* successful typemap[name] = v: nil when v was nil (also when a coder or
\* an ask object was stored before), the coder object when v was a
\* PG::Coder, and the stored object itself for every other v.
C11_LookupReturnsAssigned ==
    (last.op = "aref" /\ last.mri_type \in CanonicalNames)
        => LET v == assigned[last.mri_type[1]]
           IN  /\ last.outcome = "return"
               /\ last.ret = v
               /\ NIL_P(v) => (NIL_P(last.ret) /\ coder[last.mri_type[1]] = NULL)
               /\ rb_obj_is_kind_of_Coder(v) => DATA_PTR(last.ret) = coder[last.mri_type[1]]
               /\ (~NIL_P(v) /\ ~rb_obj_is_kind_of_Coder(v))
                     => last.ret = ask[last.mri_type[1]]

\* inside a callee that was read from the T_FIXNUM slot, T_FIXNUM has been
\* cleared and is looked up, and T_ARRAY holds a coder
C11_Witness ==
    /\ last.op = "aref" /\ last.mri_type = <<"T_FIXNUM">> /\ last.ret = Qnil
    /\ stack # <<>> /\ stack[1].ask_for_coder = proc_ask
    /\ stack[1].param_value = int_42
    /\ assigned["T_ARRAY"] = enc_int

\* C12: typemap[name] = v with a listed name never raises, whatever v is:
\* nil leaves the slot without coder and without ask value, a PG::Coder
\* leaves it with that coder and no ask value, and every other value, an
\* Integer included, is stored unchecked as the ask value with no coder.
C12_AssignNeverFails ==
    [][ (last'.op = "aset" /\ last'.mri_type \in CanonicalNames)
          => LET t == last'.mri_type[1]
                 v == last'.value
             IN  /\ last'.outcome = "return" /\ last'.err = NoErr
                 /\ assigned'[t] = v
                 /\ NIL_P(v) => (coder'[t] = NULL /\ ask'[t] = Qnil)
                 /\ rb_obj_is_kind_of_Coder(v)
                       => (coder'[t] = DATA_PTR(v) /\ ask'[t] = Qnil)
                 /\ (~NIL_P(v) /\ ~rb_obj_is_kind_of_Coder(v))
                       => (coder'[t] = NULL /\ ask'[t] = v) ]_vars

\* an Integer, neither a method name nor callable, has become the ask value
C12_Witness ==
    /\ last.op = "aset" /\ last.outcome = "return"
    /\ last.mri_type = <<"T_ARRAY">> /\ last.value = int_42
    /\ coder["T_ARRAY"] = NULL /\ ask["T_ARRAY"] = int_42
    /\ coder["T_FIXNUM"] = DATA_PTR(enc_int)

\* a step of [] called with a string that is not one of the 18 names
LooksUpInvalid == last'.op = "aref" /\ last'.mri_type \notin CanonicalNames

\* C13 as stated: [] with a string that is not one of the 18 names raises
\* the "unknown mri_type" ArgumentError, returns no value and leaves every
\* slot as it was.
C13_InvalidLookupUnknown ==
    [][ LooksUpInvalid
          => /\ last'.outcome = "raise" /\ last'.ret = Qnil
             /\ last'.err.class = "ArgumentError"
             /\ last'.err.format = "unknown mri_type %s"
             /\ coder' = coder /\ ask' = ask ]_vars

\* C13 amended: [] with a string that is not one of the 18 names raises
\* ArgumentError, returns no value and leaves every slot as it was; the
\* error is "unknown mri_type" naming the string, except that for a string
\* with a NUL byte it is StringValueCStr's "string contains null byte".
C13_InvalidLookupFails ==
    [][ LooksUpInvalid
          => /\ last'.outcome = "raise" /\ last'.ret = Qnil
             /\ last'.err.class = "ArgumentError"
             /\ IF Len(last'.mri_type) = 1
                  THEN NamesString(last'.err, last'.mri_type)
                  ELSE last'.err.format = "string contains null byte"
             /\ coder' = coder /\ ask' = ask /\ assigned' = assigned ]_vars

\* a failed [] with a NUL byte in the name, on a table with a static and a
\* dynamic slot
C13_Witness ==
    /\ last.op = "aref" /\ last.outcome = "raise"
    /\ last.mri_type = <<"T_ARRAY", "">>
    /\ last.err.format = "string contains null byte" /\ last.ret = Qnil
    /\ coder["T_FIXNUM"] = DATA_PTR(enc_int) /\ ask["T_ARRAY"] = proc_ask

\* a step in which a suspended typecast_query_param gets the callee's value
Resumes == last'.op = "typecast_query_param" /\ last'.funcall = "returned"

\* C14: while the callee of a dynamic slot runs it may assign to any slot,
\* its own included.  The suspended typecast_query_param has made its one
\* call, to the object it read before the call, and makes no other; what it
\* returns follows from the callee's value alone (the struct of a returned
\* PG::Coder, no coder for anything else, even if the slot by now holds
\* one); it writes no slot, so the callee's assignments stay, and a later
\* typecast_query_param reads them.
C14_ReentrantAssign ==
    [][ /\ Resumes
          => LET frame == stack[Len(stack)]
             IN  /\ last'.ask_for_coder = frame.ask_for_coder
                 /\ last'.p_coder = frame.p_coder
                 /\ last'.calls = frame.calls
                 /\ OneCall(last'.calls, frame.ask_for_coder, frame.param_value)
                 /\ rb_obj_is_kind_of_Coder(last'.obj)
                       => /\ last'.outcome = "return"
                          /\ last'.ret_coder = DATA_PTR(last'.obj)
                 /\ ~rb_obj_is_kind_of_Coder(last'.obj)
                       => last'.ret_coder = NULL
                 /\ last'.outcome = "raise" => last'.err.class = "TypeError"
                 /\ coder' = coder /\ ask' = ask
        /\ \A v \in ParamValues :
             (Enters(v) /\ TYPE(v) \in MriTypes)
               => /\ last'.p_coder = coder[TYPE(v)]
                  /\ last'.ask_for_coder = ask[TYPE(v)] ]_vars

\* the proc read from the T_FIXNUM slot put a coder into that very slot and
\* then returned a String: TypeError, no coder, and the slot keeps the coder
C14_Witness ==
    /\ Resolved /\ last.value = int_42 /\ last.ask_for_coder = proc_ask
    /\ last.obj = str_abc /\ last.outcome = "raise" /\ last.ret_coder = NULL
    /\ coder["T_FIXNUM"] = DATA_PTR(enc_int) /\ ask["T_FIXNUM"] = Qnil

\* the calls C15 allows for the object r read from a dynamic slot and the
\* parameter value v
TargetOf(r, v) ==
    IF Objects[r].klass = "Symbol"
      THEN << [recv |-> Self, mid |-> "ask_for_coder", args |-> <<v>>] >>
      ELSE << [recv |-> r, mid |-> "call", args |-> <<v>>] >>

\* C15: for a dynamic slot the call goes, when the stored object is a
\* Symbol, to the method of that name on the type map itself, and otherwise
\* to the call method of the stored object, in both cases with the
\* parameter value as only argument; the other target is not called.
C15_TargetByKind ==
    /\ \A n \in 1..Len(stack) :
           stack[n].calls = TargetOf(stack[n].ask_for_coder, stack[n].param_value)
    /\ (last.op = "typecast_query_param" /\ ~NIL_P(last.ask_for_coder))
           => /\ last.calls = TargetOf(last.ask_for_coder, last.value)
              /\ \A n \in 1..Len(last.calls) :
                    (last.calls[n].recv = Self) = (TYPE(last.ask_for_coder) = "T_SYMBOL")

\* the type map's own method is running for a Symbol slot, called with the
\* Array, and the T_FIXNUM slot holds a proc
C15_Witness ==
    /\ Len(stack) = 1 /\ stack[1].ask_for_coder = sym_ask
    /\ stack[1].calls[1].recv = Self /\ stack[1].calls[1].mid = "ask_for_coder"
    /\ stack[1].calls[1].args = <<ary_ints>>
    /\ last.op = "typecast_query_param" /\ last.funcall = "calling"
    /\ ask["T_FIXNUM"] = proc_ask

\* C16: a []= that returns changes the slot of the named type only: each of
\* the other 17 types keeps its coder and its ask value, also when it holds
\* the object that is stored into or removed from the named slot.
C16_AssignOnlyNamed ==
    [][ (last'.op = "aset" /\ last'.outcome = "return")
          => /\ last'.mri_type \in CanonicalNames
             /\ \A t \in MriTypes \ {last'.mri_type[1]} :
                   /\ coder'[t] = coder[t]
                   /\ ask'[t] = ask[t]
                   /\ assigned'[t] = assigned[t] ]_vars

\* enc_int has been stored for T_FIXNUM while T_ARRAY holds the same coder
C16_Witness ==
    /\ last.op = "aset" /\ last.outcome = "return"
    /\ last.mri_type = <<"T_FIXNUM">> /\ last.value = enc_int
    /\ coder["T_FIXNUM"] = DATA_PTR(enc_int)
    /\ coder["T_ARRAY"] = DATA_PTR(enc_int)
    /\ assigned["T_ARRAY"] = enc_int

\* C17: [], coders and fit_to_query write no slot: after each of them
\* every type has the coder and the ask value it had before; fit_to_query
\* raises nothing and returns the type map it was called on, for any
\* params.
C17_ObserversWriteNothing ==
    [][ (last'.op \in {"aref", "coders", "fit_to_query"})
          => /\ coder' = coder /\ ask' = ask
             /\ last'.op = "fit_to_query"
                   => /\ last'.outcome = "return" /\ last'.err = NoErr
                      /\ last'.ret = Self ]_vars

\* fit_to_query has been called with nil for params on a type map with a
\* static and a dynamic slot, and returned the type map
C17_Witness ==
    /\ last.op = "fit_to_query" /\ last.value = Qnil /\ last.ret = Self
    /\ coder["T_ARRAY"] = DATA_PTR(enc_int) /\ ask["T_FIXNUM"] = sym_ask

\* C18: typecast_query_param writes no slot, neither where it reads the
\* slot and makes its call nor where it resumes with the callee's value or
\* exception, whatever its outcome; so the coder a callee returned is not
\* stored, a slot with an ask value keeps it, and every later
\* typecast_query_param for that type makes the call again.
C18_DispatchWritesNothing ==
    [][ /\ last'.op = "typecast_query_param"
          => /\ coder' = coder /\ ask' = ask /\ assigned' = assigned
             /\ last'.outcome \in {"return", "raise"}
        /\ \A v \in ParamValues :
             ( /\ Enters(v) /\ TYPE(v) \in MriTypes
               /\ ~NIL_P(ask[TYPE(v)]) )
               => /\ last'.funcall \in {"calling", "no_method"}
                  /\ Len(last'.calls) = 1
                  /\ last'.calls[1].args = <<v>>
                  /\ last'.ask_for_coder = ask'[TYPE(v)] ]_vars

\* the proc of the T_FIXNUM slot returned a coder for 42; the slot still
\* holds the proc and no coder
C18_Witness ==
    /\ Resolved /\ last.value = int_42 /\ last.obj = enc_arr
    /\ last.outcome = "return" /\ last.ret_coder = DATA_PTR(enc_arr)
    /\ last.ask_for_coder = proc_ask
    /\ ask["T_FIXNUM"] = proc_ask /\ coder["T_FIXNUM"] = NULL
    /\ assigned["T_FIXNUM"] = proc_ask

\* C19: what pg_tmbmt_mark hands to the collector contains, in whatever
\* state it runs, the coder object of every slot with a coder and the ask
\* value of every slot with one, and no object besides those the slots
\* hold: an object that no slot holds any more is not marked by the type
\* map.
C19_MarksWhatIsStored ==
    last.op = "mark"
        => /\ \A t \in MriTypes :
                 /\ coder[t] # NULL => coder_obj(coder[t]) \in last.marked
                 /\ ~NIL_P(ask[t]) => ask[t] \in last.marked
                 /\ ~NIL_P(assigned[t]) => assigned[t] \in last.marked
           /\ \A x \in last.marked \ {Qnil} :
                 \E t \in MriTypes :
                    /\ assigned[t] = x
                    /\ \/ coder[t] # NULL /\ coder_obj(coder[t]) = x
                       \/ ask[t] = x

\* the mark function ran while the method named by the Symbol read from the
\* T_ARRAY slot was running, after that slot had been given a coder: the
\* coder and the proc of T_FIXNUM are marked, the Symbol is not
C19_Witness ==
    /\ last.op = "mark"
    /\ stack # <<>> /\ stack[1].ask_for_coder = sym_ask
    /\ stack[1].param_value = ary_ints
    /\ coder["T_ARRAY"] = DATA_PTR(enc_int) /\ ask["T_FIXNUM"] = proc_ask
    /\ enc_int \in last.marked /\ proc_ask \in last.marked
    /\ sym_ask \notin last.marked

====
